---- MODULE Spec2Model ----
(***************************************************************************)
(* A model of the ZCLI interpreter (src/ZCLI.py): the interpreter object   *)
(* ZCLILanguage, its line parser and command dispatcher                    *)
(* (_parse_and_execute_line), the replay loop (_run_program_lines), file   *)
(* save/open and the read-eval-print loop (run_repl).                      *)
(*                                                                         *)
(* Lines are TLA+ strings; the parser works on their characters exactly as *)
(* the Python string and regex operations of the source do.                *)
(***************************************************************************)
EXTENDS Integers, Sequences, FiniteSets, TLC

VARIABLES
    variables,          \* self.variables: name -> value
    program_lines,      \* self.program_lines
    mode,               \* self.mode: "compiler" | "interpreter"
    session_history,    \* self.session_history
    last_input_value,   \* self.last_input_value: <<>> is None, <<s>> is the string s
    files,              \* the file system: file name -> sequence of raw lines
    pc,                 \* "init" | "repl" | "replay" | "exited"
    replay,             \* the running _run_program_lines loop: lines, next index, caller
    exit_code,          \* process exit status, -1 while the process runs
    out,                \* what the last step printed, as a sequence of events
    entered,            \* history variable: every line read at the prompt before exit
    step,               \* history variable: what the last step did
    replay_log          \* history variable: lines run by the current/last replay

vars == <<variables, program_lines, mode, session_history, last_input_value,
          files, pc, replay, exit_code, out, entered, step, replay_log>>

----------------------------------------------------------------------------
(* Python string operations                                                *)

Ch(s, i) == SubSeq(s, i, i)

\* str.strip() / regex \s: the whitespace characters a line can hold
Whitespace == {" ", "\t"}

UpperAlpha == "ABCDEFGHIJKLMNOPQRSTUVWXYZ"
LowerAlpha == "abcdefghijklmnopqrstuvwxyz"
Digits == "0123456789"

CharsOf(s) == {Ch(s, i) : i \in 1..Len(s)}

\* the regex class [a-zA-Z0-9#] of the color tag pattern
ColorArgChars == CharsOf(UpperAlpha) \cup CharsOf(LowerAlpha) \cup CharsOf(Digits) \cup {"#"}

\* the regex class [0-9a-f] of the hex color pattern
HexChars == CharsOf(Digits) \cup CharsOf("abcdef")

LowerCh(c) ==
    IF c \in CharsOf(UpperAlpha)
    THEN Ch(LowerAlpha, CHOOSE i \in 1..26 : Ch(UpperAlpha, i) = c)
    ELSE c

RECURSIVE Lower(_)
Lower(s) == IF s = "" THEN "" ELSE LowerCh(Ch(s, 1)) \o Lower(SubSeq(s, 2, Len(s)))

\* index of the first non-whitespace character at or after from, Len(s)+1 if none
NextNonWsAt(s, from) ==
    IF \A i \in from..Len(s) : Ch(s, i) \in Whitespace
    THEN Len(s) + 1
    ELSE CHOOSE i \in from..Len(s) :
            /\ Ch(s, i) \notin Whitespace
            /\ \A j \in from..(i - 1) : Ch(s, j) \in Whitespace

\* index of the first whitespace character at or after from, Len(s)+1 if none
NextWsAt(s, from) ==
    IF \A i \in from..Len(s) : Ch(s, i) \notin Whitespace
    THEN Len(s) + 1
    ELSE CHOOSE i \in from..Len(s) :
            /\ Ch(s, i) \in Whitespace
            /\ \A j \in from..(i - 1) : Ch(s, j) \notin Whitespace

\* index of the last non-whitespace character, 0 if none
LastNonWs(s) ==
    IF \A i \in 1..Len(s) : Ch(s, i) \in Whitespace
    THEN 0
    ELSE CHOOSE i \in 1..Len(s) :
            /\ Ch(s, i) \notin Whitespace
            /\ \A j \in (i + 1)..Len(s) : Ch(s, j) \in Whitespace

\* str.strip()
StripTo(s, e) == IF e = 0 THEN "" ELSE SubSeq(s, NextNonWsAt(s, 1), e)

Strip(s) == StripTo(s, LastNonWs(s))

\* str.startswith / str.endswith
StartsWith(s, p) == Len(p) <= Len(s) /\ SubSeq(s, 1, Len(p)) = p
EndsWith(s, p) == Len(p) <= Len(s) /\ SubSeq(s, Len(s) - Len(p) + 1, Len(s)) = p

\* s[k:] for a 0-based k >= 0
SliceFrom(s, k) == IF k >= Len(s) THEN "" ELSE SubSeq(s, k + 1, Len(s))

\* s[1:-1]
Inner(s) == IF Len(s) <= 2 THEN "" ELSE SubSeq(s, 2, Len(s) - 1)

\* str.split(maxsplit=2): at most three whitespace-separated parts, the third
\* taking the rest of the string. a1, a2 are the starts and e1, e2 the ends
\* (exclusive) of the first two parts
SplitThird(s, a1, e1, a2, e2, a3) ==
    IF a3 > Len(s) THEN <<SubSeq(s, a1, e1 - 1), SubSeq(s, a2, e2 - 1)>>
    ELSE <<SubSeq(s, a1, e1 - 1), SubSeq(s, a2, e2 - 1), SubSeq(s, a3, Len(s))>>

SplitSecondEnd(s, a1, e1, a2, e2) == SplitThird(s, a1, e1, a2, e2, NextNonWsAt(s, e2))

SplitSecond(s, a1, e1, a2) ==
    IF a2 > Len(s) THEN <<SubSeq(s, a1, e1 - 1)>>
    ELSE SplitSecondEnd(s, a1, e1, a2, NextWsAt(s, a2))

SplitFirstEnd(s, a1, e1) == SplitSecond(s, a1, e1, NextNonWsAt(s, e1))

SplitFirst(s, a1) ==
    IF a1 > Len(s) THEN <<>> ELSE SplitFirstEnd(s, a1, NextWsAt(s, a1))

SplitMax2(s) == SplitFirst(s, NextNonWsAt(s, 1))

\* [p.strip() for p in re.split(r'\s*:\s*', s)]
RECURSIVE SplitColon(_)
SplitColonAt(s, k) == <<Strip(SubSeq(s, 1, k - 1))>> \o SplitColon(SliceFrom(s, k))

SplitColon(s) ==
    IF \A i \in 1..Len(s) : Ch(s, i) # ":"
    THEN <<Strip(s)>>
    ELSE SplitColonAt(s, CHOOSE i \in 1..Len(s) :
                            Ch(s, i) = ":" /\ \A j \in 1..(i - 1) : Ch(s, j) # ":")

\* start of the longest run of characters of set that ends at index e
\* (e + 1 when the run is empty)
RunStartBack(s, e, set) ==
    CHOOSE i \in 1..(e + 1) :
        /\ \A j \in i..e : Ch(s, j) \in set
        /\ (i = 1 \/ Ch(s, i - 1) \notin set)

----------------------------------------------------------------------------
(* Color tag                                                               *)

\* re.search(r'\s*\(\(color\s+([a-zA-Z0-9#]+)\)\)\s*$', line) and the re.sub
\* that removes the match: found, group(1), and the line without the tag.
\* The pattern is matched from the end of the line: e is the index of the last
\* ")", ns..ne the color argument, ws the start of the whitespace before it
NoColorTag(line) == [found |-> FALSE, arg |-> "", rest |-> line]

ColorTagKeyword(line, ne, ns, ws) ==
    IF ws > ns - 1 \/ ws - 7 < 1 THEN NoColorTag(line)
    ELSE IF SubSeq(line, ws - 7, ws - 1) # "((color" THEN NoColorTag(line)
    ELSE [found |-> TRUE, arg |-> SubSeq(line, ns, ne),
          rest |-> SubSeq(line, 1, RunStartBack(line, ws - 8, Whitespace) - 1)]

ColorTagArg(line, ne, ns) ==
    IF ns > ne \/ ns = 1 THEN NoColorTag(line)
    ELSE ColorTagKeyword(line, ne, ns, RunStartBack(line, ns - 1, Whitespace))

ColorTagEnd(line, e) ==
    IF e < 2 THEN NoColorTag(line)
    ELSE IF SubSeq(line, e - 1, e) # "))" THEN NoColorTag(line)
    ELSE ColorTagArg(line, e - 2, RunStartBack(line, e - 2, ColorArgChars))

ColorTag(line) == ColorTagEnd(line, LastNonWs(line))

\* self.ANSI_COLORS, each colorama code written by its name
ANSI_COLORS ==
    [n \in {"red", "orange", "yellow", "green", "blue", "indigo", "violet",
            "purple", "cyan", "white", "black"} |->
        CASE n = "red"    -> "Fore.RED"
          [] n = "orange" -> "Fore.YELLOW"
          [] n = "yellow" -> "Fore.YELLOW"
          [] n = "green"  -> "Fore.GREEN"
          [] n = "blue"   -> "Fore.BLUE"
          [] n = "indigo" -> "Fore.BLUE"
          [] n = "violet" -> "Fore.MAGENTA"
          [] n = "purple" -> "Fore.MAGENTA"
          [] n = "cyan"   -> "Fore.CYAN"
          [] n = "white"  -> "Fore.WHITE"
          [] n = "black"  -> "Fore.BLACK"]

\* re.match(r'^#([0-9a-f]{3}){1,2}$', s)
IsHexColor(s) ==
    /\ Len(s) \in {4, 7}
    /\ Ch(s, 1) = "#"
    /\ \A i \in 2..Len(s) : Ch(s, i) \in HexChars

\* _get_ansi_color_code: the code, and whether the hex warning is printed
AnsiColorCodeOf(color_name_or_hex_lower) ==
    IF color_name_or_hex_lower \in DOMAIN ANSI_COLORS
    THEN [code |-> ANSI_COLORS[color_name_or_hex_lower], warn |-> FALSE]
    ELSE IF IsHexColor(color_name_or_hex_lower) THEN [code |-> "", warn |-> TRUE]
    ELSE [code |-> "", warn |-> FALSE]

GetAnsiColorCode(color_name_or_hex) == AnsiColorCodeOf(Lower(color_name_or_hex))

----------------------------------------------------------------------------
(* Output events and interpreter state                                     *)

\* one print() or input() prompt: kind is "content" (a show's output line),
\* "error", "warning", "info", "help" or "prompt"; tag names the diagnostic
Ev(kind, tag, text, color) == [kind |-> kind, tag |-> tag, text |-> text, color |-> color]

\* the fields of the ZCLILanguage object, plus the file system it reads and writes
State(vs, pl, m, sh, liv, fs) ==
    [variables |-> vs, program_lines |-> pl, mode |-> m,
     session_history |-> sh, last_input_value |-> liv, files |-> fs]

\* the result of one call: the new state, the output, and how control leaves
\* the call: "ok" (returned), "replay" (entered _run_program_lines on rlines,
\* called from origin) or "exit" (SystemExit raised by sys.exit(1))
Result(s, o, ctl, rlines, origin) ==
    [s |-> s, out |-> o, ctl |-> ctl, rlines |-> rlines, origin |-> origin]

Returned(s, o) == Result(s, o, "ok", <<>>, "none")

WithOutputBefore(o, r) == [r EXCEPT !.out = o \o r.out]

\* a store that keeps no other binding
StoreVarAlone(vs, name, value) == [n \in {name} |-> value]

\* self.variables[name] = value
StoreVar(vs, name, value) ==
    [n \in (DOMAIN vs) \cup {name} |-> IF n = name THEN value ELSE vs[n]]

----------------------------------------------------------------------------
(* Operand resolution                                                      *)

\* the name inside (name) with the outer parentheses removed only
InnerParenNameKept(var_name_in_paren) == var_name_in_paren

\* the name inside (name) or ((name)): outer parentheses removed, then inner
\* ones if still wrapped
InnerParenName(var_name_in_paren) ==
    IF StartsWith(var_name_in_paren, "(") /\ EndsWith(var_name_in_paren, ")")
    THEN Inner(var_name_in_paren) ELSE var_name_in_paren

ParenName(part) == InnerParenName(Inner(part))

Resolved(val) == [ok |-> TRUE, val |-> val, tag |-> "", arg |-> ""]
Failed(tag, arg) == [ok |-> FALSE, val |-> "", tag |-> tag, arg |-> arg]

\* the value of the variable a parenthesised part names
LookUp(var_name_in_paren, vs) ==
    IF var_name_in_paren \in DOMAIN vs
    THEN Resolved(vs[var_name_in_paren])
    ELSE Failed("UndefinedVariable", var_name_in_paren)

\* the define loop body giving "" for the placeholder when no input was read
ResolveDefinePartDefaultEmpty(part, vs, liv) ==
    IF part = "" THEN Resolved("")
    ELSE IF StartsWith(part, "\"") /\ EndsWith(part, "\"") THEN Resolved(Inner(part))
    ELSE IF Lower(part) = "((input))" THEN
        IF liv # <<>> THEN Resolved(liv[1]) ELSE Resolved("")
    ELSE IF StartsWith(part, "(") /\ EndsWith(part, ")") THEN LookUp(ParenName(part), vs)
    ELSE Failed("InvalidOperand", part)

\* one iteration of the define loop over concatenation_parts
ResolveDefinePart(part, vs, liv) ==
    IF part = "" THEN Resolved("")
    ELSE IF StartsWith(part, "\"") /\ EndsWith(part, "\"") THEN Resolved(Inner(part))
    ELSE IF Lower(part) = "((input))" THEN
        IF liv # <<>> THEN Resolved(liv[1]) ELSE Failed("UnboundInput", part)
    ELSE IF StartsWith(part, "(") /\ EndsWith(part, ")") THEN LookUp(ParenName(part), vs)
    ELSE Failed("InvalidOperand", part)

\* one iteration of the show loop over concatenation_parts
ResolveShowPart(part, vs) ==
    IF part = "" THEN Resolved("")
    ELSE IF StartsWith(part, "\"") /\ EndsWith(part, "\"") THEN Resolved(Inner(part))
    ELSE IF StartsWith(part, "(") /\ EndsWith(part, ")") THEN LookUp(ParenName(part), vs)
    ELSE Failed("InvalidOperand", part)

\* the define loop and the join: stops at the first part that fails
RECURSIVE DefineChain(_, _, _)
\* the join with the parts in reverse order
JoinResolvedReversed(r, rest) == IF rest.ok THEN Resolved(rest.val \o r.val) ELSE rest

JoinResolved(r, rest) == IF rest.ok THEN Resolved(r.val \o rest.val) ELSE rest

DefineChainFrom(r, parts, vs, liv) ==
    IF ~r.ok THEN r ELSE JoinResolved(r, DefineChain(parts, vs, liv))

DefineChain(parts, vs, liv) ==
    IF parts = <<>> THEN Resolved("")
    ELSE DefineChainFrom(ResolveDefinePart(Head(parts), vs, liv), Tail(parts), vs, liv)

\* the show loop and the join
RECURSIVE ShowChain(_, _)
ShowChainFrom(r, parts, vs) ==
    IF ~r.ok THEN r ELSE JoinResolved(r, ShowChain(parts, vs))

ShowChain(parts, vs) ==
    IF parts = <<>> THEN Resolved("")
    ELSE ShowChainFrom(ResolveShowPart(Head(parts), vs), Tail(parts), vs)

----------------------------------------------------------------------------
(* Files                                                                   *)

\* the lines of the file as they are, blank ones included
ReadLinesRaw(content) == content

\* [line.strip() for line in f if line.strip()]
RECURSIVE ReadLines(_)
ReadLines(content) ==
    IF content = <<>> THEN <<>>
    ELSE IF Strip(Head(content)) = "" THEN ReadLines(Tail(content))
    ELSE <<Strip(Head(content))>> \o ReadLines(Tail(content))

\* the name _save_program writes to
SaveName(filename) ==
    IF ~EndsWith(Lower(filename), ".zcli") THEN filename \o ".zcli" ELSE filename

\* the with block of _save_program: the file holds exactly the lines written
WriteLines(s, filename, content) ==
    Returned([s EXCEPT !.files = [f \in (DOMAIN s.files) \cup {filename} |->
                                     IF f = filename THEN content ELSE s.files[f]]],
             <<Ev("info", "Saved", filename, "")>>)

\* _save_program writing the buffer whatever the mode
SaveProgramBufferOnly(s, filename, io) ==
    IF io = "fail"
    THEN Returned(s, <<Ev("error", "IOFailure", SaveName(filename), "")>>)
    ELSE WriteLines(s, SaveName(filename), s.program_lines)

\* _save_program; io = "fail" is an IOError from open(filename, 'w')
SaveProgram(s, filename, io) ==
    IF io = "fail"
    THEN Returned(s, <<Ev("error", "IOFailure", SaveName(filename), "")>>)
    ELSE WriteLines(s, SaveName(filename),
                    IF s.mode = "compiler" THEN s.program_lines ELSE s.session_history)

\* the with block of _open_program, lines being the lines read
LoadLines(s, filename, lines) ==
    IF s.mode = "compiler"
    THEN Returned([s EXCEPT !.program_lines = s.program_lines \o lines],
                  <<Ev("info", "Loaded", filename, "")>>)
    ELSE Result(s, <<Ev("info", "Executing", filename, "")>>, "replay", lines, "open")

\* _open_program; io = "fail" is an IOError from open(filename, 'r')
OpenProgram(s, filename, io) ==
    IF filename \notin DOMAIN s.files
    THEN Returned(s, <<Ev("error", "FileNotFound", filename, "")>>)
    ELSE IF io = "fail"
    THEN Returned(s, <<Ev("error", "IOFailure", filename, "")>>)
    ELSE LoadLines(s, filename, ReadLines(s.files[filename]))

----------------------------------------------------------------------------
(* The command dispatcher: _parse_and_execute_line                         *)

\* what the environment supplies to one call: inp is the line input() returns
\* (<<>> when it raises EOFError), io is whether opening a file succeeds
Env(inp, io) == [inp |-> inp, io |-> io]

\* full_value_argument of the define branch
FullValueArgument(processed_line, var_name) ==
    Strip(SliceFrom(processed_line, Len("define") + Len(var_name) + 1))

\* the end of the define branch storing "" when the loop failed
DefineStoreOnFailure(s, var_name, rt, r) ==
    IF ~r.ok THEN Returned([s EXCEPT !.variables = StoreVar(s.variables, var_name, "")],
                           <<Ev("error", r.tag, r.arg, "")>>)
    ELSE Returned([s EXCEPT !.variables = StoreVar(s.variables, var_name, r.val)],
                  IF rt THEN <<>> ELSE <<Ev("info", "Defined", var_name, "")>>)

\* the end of the define branch, r being the outcome of the loop
DefineStore(s, var_name, rt, r) ==
    IF ~r.ok THEN Returned(s, <<Ev("error", r.tag, r.arg, "")>>)
    ELSE Returned([s EXCEPT !.variables = StoreVar(s.variables, var_name, r.val)],
                  IF rt THEN <<>> ELSE <<Ev("info", "Defined", var_name, "")>>)

\* the define branch
DoDefine(s, processed_line, parts, rt, env) ==
    IF Len(parts) < 2 THEN Returned(s, <<Ev("error", "Syntax", "define", "")>>)
    ELSE IF Len(parts) < 3 THEN Returned(s, <<Ev("error", "Syntax", "define", "")>>)
    ELSE DefineStore(s, parts[2], rt,
            DefineChain(SplitColon(FullValueArgument(processed_line, parts[2])),
                        s.variables, s.last_input_value))

\* the except handler of _parse_and_execute_line, reached from the show
\* branch when input() raises
ShowInputFailed(s, input_prompt, rt) ==
    IF rt
    THEN Result(s, <<Ev("prompt", "", input_prompt, ""), Ev("error", "Runtime", "show", ""),
                     Ev("info", "Halted", "", "")>>, "exit", <<>>, "none")
    ELSE Returned(s, <<Ev("prompt", "", input_prompt, ""), Ev("error", "Runtime", "show", "")>>)

\* show input storing the line without its surrounding whitespace
ShowInputStripped(s, input_prompt, rt, env) ==
    IF env.inp = <<>> THEN ShowInputFailed(s, input_prompt, rt)
    ELSE Returned([s EXCEPT !.last_input_value = <<Strip(env.inp[1])>>],
                  <<Ev("prompt", "", input_prompt, "")>>)

\* show input: the call of input() and the store of its result
ShowInput(s, input_prompt, rt, env) ==
    IF env.inp = <<>> THEN ShowInputFailed(s, input_prompt, rt)
    ELSE Returned([s EXCEPT !.last_input_value = env.inp],
                  <<Ev("prompt", "", input_prompt, "")>>)

\* the end of the show branch printing without the color
ShowPrintUncolored(s, color_code, r) ==
    IF ~r.ok THEN Returned(s, <<Ev("error", r.tag, r.arg, "")>>)
    ELSE Returned(s, <<Ev("content", "", r.val, "")>>)

\* the end of the show branch for a concatenation, r being the outcome of the loop
ShowPrint(s, color_code, r) ==
    IF ~r.ok THEN Returned(s, <<Ev("error", r.tag, r.arg, "")>>)
    ELSE Returned(s, <<Ev("content", "", r.val, color_code)>>)

\* the show branch
DoShow(s, processed_line, parts, color_code, rt, env) ==
    IF Len(parts) < 2 THEN Returned(s, <<Ev("error", "Syntax", "show", "")>>)
    ELSE IF Lower(parts[2]) = "input" THEN
        IF Len(parts) >= 3 /\ ~(StartsWith(parts[3], "\"") /\ EndsWith(parts[3], "\""))
        THEN Returned(s, <<Ev("error", "Syntax", "show input", "")>>)
        ELSE ShowInput(s, IF Len(parts) >= 3 THEN Inner(parts[3]) ELSE "", rt, env)
    ELSE IF Lower(parts[2]) = "((input))" THEN
        IF s.last_input_value # <<>>
        THEN Returned(s, <<Ev("content", "", s.last_input_value[1], color_code)>>)
        ELSE Returned(s, <<Ev("error", "UnboundInput", parts[2], "")>>)
    ELSE ShowPrint(s, color_code,
            ShowChain(SplitColon(Strip(SliceFrom(processed_line, Len("show")))), s.variables))

\* the execute branch replaying the buffer without its first line
DoExecuteSkippingFirst(s, rt) ==
    IF rt THEN Returned(s, <<Ev("warning", "Ignored", "execute", "")>>)
    ELSE IF s.mode = "compiler" THEN
        IF s.program_lines = <<>>
        THEN Returned(s, <<Ev("info", "NoProgram", "", "")>>)
        ELSE Result([s EXCEPT !.mode = "interpreter"],
                    <<Ev("info", "Executing", "", "")>>, "replay", Tail(s.program_lines), "execute")
    ELSE Returned(s, <<Ev("error", "ExecuteMode", "execute", "")>>)

\* the execute branch replaying the buffer in interpreter mode too
DoExecuteAnyMode(s, rt) ==
    IF rt THEN Returned(s, <<Ev("warning", "Ignored", "execute", "")>>)
    ELSE IF s.program_lines = <<>>
    THEN Returned(s, <<Ev("info", "NoProgram", "", "")>>)
    ELSE Result([s EXCEPT !.mode = "interpreter"],
                <<Ev("info", "Executing", "", "")>>, "replay", s.program_lines, "execute")

\* the execute branch emptying the buffer it replays
DoExecuteClearsBuffer(s, rt) ==
    IF rt THEN Returned(s, <<Ev("warning", "Ignored", "execute", "")>>)
    ELSE IF s.mode = "compiler" THEN
        IF s.program_lines = <<>>
        THEN Returned(s, <<Ev("info", "NoProgram", "", "")>>)
        ELSE Result([s EXCEPT !.mode = "interpreter", !.program_lines = <<>>],
                    <<Ev("info", "Executing", "", "")>>, "replay", s.program_lines, "execute")
    ELSE Returned(s, <<Ev("error", "ExecuteMode", "execute", "")>>)

\* the execute branch replaying the buffer from inside a replay too
DoExecuteNested(s, rt) ==
    IF rt THEN Result(s, <<Ev("info", "Executing", "", "")>>, "replay", s.program_lines,
                      "execute")
    ELSE IF s.mode = "compiler" THEN
        IF s.program_lines = <<>>
        THEN Returned(s, <<Ev("info", "NoProgram", "", "")>>)
        ELSE Result([s EXCEPT !.mode = "interpreter"],
                    <<Ev("info", "Executing", "", "")>>, "replay", s.program_lines, "execute")
    ELSE Returned(s, <<Ev("error", "ExecuteMode", "execute", "")>>)

\* the execute branch; the replay it starts runs in mode "interpreter"
DoExecute(s, rt) ==
    IF rt THEN Returned(s, <<Ev("warning", "Ignored", "execute", "")>>)
    ELSE IF s.mode = "compiler" THEN
        IF s.program_lines = <<>>
        THEN Returned(s, <<Ev("info", "NoProgram", "", "")>>)
        ELSE Result([s EXCEPT !.mode = "interpreter"],
                    <<Ev("info", "Executing", "", "")>>, "replay", s.program_lines, "execute")
    ELSE Returned(s, <<Ev("error", "ExecuteMode", "execute", "")>>)

\* the help branch
DoHelp(s, rt) ==
    IF rt THEN Returned(s, <<>>) ELSE Returned(s, <<Ev("help", "", "", "")>>)

\* the save branch
DoSave(s, parts, rt, env) ==
    IF rt THEN Returned(s, <<>>)
    ELSE IF Len(parts) >= 2 THEN SaveProgram(s, parts[2], env.io)
    ELSE Returned(s, <<Ev("error", "Syntax", "save", "")>>)

\* the open branch
DoOpen(s, parts, rt, env) ==
    IF rt THEN Returned(s, <<>>)
    ELSE IF Len(parts) >= 2 THEN OpenProgram(s, parts[2], env.io)
    ELSE Returned(s, <<Ev("error", "Syntax", "open", "")>>)

\* the int branch
DoInt(s, rt) ==
    IF rt THEN Returned(s, <<Ev("warning", "Ignored", "int", "")>>)
    ELSE Returned([s EXCEPT !.mode = "interpreter"], <<Ev("info", "Mode", "interpreter", "")>>)

\* the comp branch with its test of is_runtime_execution removed
DoCompAlways(s, rt) ==
    Returned([s EXCEPT !.mode = "compiler"], <<Ev("info", "Mode", "compiler", "")>>)

\* the comp branch
DoComp(s, rt) ==
    IF rt THEN Returned(s, <<Ev("warning", "Ignored", "comp", "")>>)
    ELSE Returned([s EXCEPT !.mode = "compiler"], <<Ev("info", "Mode", "compiler", "")>>)

\* the else branch going back to compiler mode on an unknown command
DoUnknownResetsMode(s, command, rt) ==
    IF rt THEN Returned(s, <<>>)
    ELSE Returned([s EXCEPT !.mode = "compiler"], <<Ev("error", "UnknownCommand", command, "")>>)

\* the else branch halting a replay on an unknown command
DoUnknownHalts(s, command, rt) ==
    IF rt THEN Result(s, <<Ev("error", "UnknownCommand", command, "")>>, "exit", <<>>, "none")
    ELSE Returned(s, <<Ev("error", "UnknownCommand", command, "")>>)

\* the else branch: an unknown command
DoUnknown(s, command, rt) ==
    IF rt THEN Returned(s, <<>>)
    ELSE Returned(s, <<Ev("error", "UnknownCommand", command, "")>>)

\* the branches of the try block, by command word
DispatchCommand(command, s, processed_line, parts, color_code, rt, env) ==
    CASE command = "define" -> DoDefine(s, processed_line, parts, rt, env)
      [] command = "show" -> DoShow(s, processed_line, parts, color_code, rt, env)
      [] command = "help" -> DoHelp(s, rt)
      [] command = "save" -> DoSave(s, parts, rt, env)
      [] command = "open" -> DoOpen(s, parts, rt, env)
      [] command = "execute" -> DoExecute(s, rt)
      [] command = "int" -> DoInt(s, rt)
      [] command = "comp" -> DoComp(s, rt)
      [] OTHER -> DoUnknown(s, command, rt)

Dispatch(s, processed_line, parts, color_code, rt, env) ==
    DispatchCommand(Lower(parts[1]), s, processed_line, parts, color_code, rt, env)

\* the start of _parse_and_execute_line, up to the command word: whether the
\* line is ignored (empty or a comment), the color tag and its code, the hex
\* warning it prints, the line without the tag and its parts
PreProcessed(cc, arg, processed_line) ==
    [ignored |-> FALSE,
     warned |-> IF cc.warn THEN <<Ev("warning", "HexColor", arg, "")>> ELSE <<>>,
     color_code |-> cc.code,
     processed_line |-> processed_line,
     parts |-> SplitMax2(processed_line)]

PreProcessTag(tag) ==
    IF tag.found THEN PreProcessed(GetAnsiColorCode(tag.arg), tag.arg, Strip(tag.rest))
    ELSE PreProcessed([code |-> "", warn |-> FALSE], "", Strip(tag.rest))

\* PreProcessStripped without the comment rule: a $ line goes on to the
\* dispatcher
PreProcessStrippedNoComment(line, stripped) ==
    IF stripped = ""
    THEN [ignored |-> TRUE, warned |-> <<>>, color_code |-> "",
          processed_line |-> "", parts |-> <<>>]
    ELSE PreProcessTag(ColorTag(line))

PreProcessStripped(line, stripped) ==
    IF stripped = "" \/ StartsWith(stripped, "$")
    THEN [ignored |-> TRUE, warned |-> <<>>, color_code |-> "",
          processed_line |-> "", parts |-> <<>>]
    ELSE PreProcessTag(ColorTag(line))

PreProcess(line) == PreProcessStripped(line, Strip(line))

CONTROL_COMMANDS == {"execute", "help", "save", "open", "int", "comp", "exit"}

\* the test of the prompt loop for a line to run at once in compiler mode
StartsWithControl(temp_line_for_command_check_lower) ==
    \E cmd \in CONTROL_COMMANDS : StartsWith(temp_line_for_command_check_lower, cmd)

IsControlLine(user_input) == StartsWithControl(Lower(Strip(ColorTag(user_input).rest)))

\* the test of the prompt loop for the exit command
IsExitLine(user_input) == Lower(user_input) = "exit"

NoVariables == [n \in {} |-> ""]
NoFiles == [f \in {} |-> <<>>]

----------------------------------------------------------------------------
(* Bounds and the environment                                              *)

\* the number of lines read at the prompt in one session, and in one session
\* that runs programs
MaxEntered == 3
MaxProgramEntered == 4

\* the lines input() can return to a show input
InputLines == {"Bob", "", " b "}

\* what input() can do: return a line, or raise EOFError (<<>>)
InputOutcomes == {<<>>} \cup {<<i>> : i \in InputLines}

\* whether a call on line reaches input(): a show whose second token is input
\* and whose prompt, if any, is quoted
PartsReadInput(parts) ==
    /\ Len(parts) >= 2
    /\ Lower(parts[1]) = "show" /\ Lower(parts[2]) = "input"
    /\ Len(parts) >= 3 => StartsWith(parts[3], "\"") /\ EndsWith(parts[3], "\"")

ReadsInput(line) == PartsReadInput(PreProcess(line).parts)

\* whether a call on line opens a file: a save or an open with a file name
PartsOpenFile(parts) ==
    /\ Len(parts) >= 2
    /\ Lower(parts[1]) \in {"save", "open"}

OpensFile(line) == PartsOpenFile(PreProcess(line).parts)

\* the environment's possible answers to one call on line
EnvChoices(line) ==
    IF ReadsInput(line) THEN {Env(i, "ok") : i \in InputOutcomes}
    ELSE IF OpensFile(line) THEN {Env(<<>>, io) : io \in {"ok", "fail"}}
    ELSE {Env(<<>>, "ok")}

----------------------------------------------------------------------------
(* Sessions: the lines typed at the prompt and the files on disk           *)

\* the prompt loop: commands of both kinds, blank lines, a comment, lines
\* that only start like a control command
Vocab ==
    {"define y \"1\"", "show (y)", "", "  ", "$ note", "helper", "exiting",
     "execute", "Help ((color red))", "save f", "open p.zcli", "int", "comp", "exit"}

FileSystems ==
    {[f \in {"p.zcli"} |-> <<"define y \"1\"", "", "save q", "show (y) ((color red))">>]}

FileArgs == {"p.zcli"}

\* programs: lines to buffer and replay, and a file holding every control
\* command and a line of each kind of error
VocabReplay ==
    {"define y \"1\"", "define y (y) : \"2\"", "show (y)", "execute", "int",
     "open m.zcli", "exit"}

MetaProgram ==
    <<"save q", "open m.zcli", "execute", "int", "comp", "help", "Comp ((color red))",
      "define w", "show ((input))", "define v \"a\" : bad", "define z (y)">>

FileSystemsReplay == {[f \in {"m.zcli"} |-> MetaProgram]}

FileArgsReplay == {"m.zcli"}

\* programs to name on the command line: one that reads a line of input
\* before it goes on, one without an error, one whose last line fails
InputProgram == <<"show input", "define y \"1\"">>

OkProgram == <<"define y \"1\"", "show (y)">>

FileSystemsRun ==
    {[f \in {"m.zcli", "h.zcli", "k.zcli"} |->
        CASE f = "m.zcli" -> MetaProgram
          [] f = "h.zcli" -> InputProgram
          [] f = "k.zcli" -> OkProgram]}

FileArgsRun == {"m.zcli", "h.zcli", "k.zcli", "nofile.zcli"}

\* define and show commands given by their structure: a segment is a quoted
\* literal, a reference to a variable, the input placeholder, nothing, or a
\* bare word; a command line is the segments written out with " : " between
Lit(s) == [k |-> "lit", v |-> s]
Var(n) == [k |-> "var", v |-> n]
Inp == [k |-> "input", v |-> ""]
Empty == [k |-> "empty", v |-> ""]
Bad(w) == [k |-> "bad", v |-> w]

DefineCmd(name, segs) == [cmd |-> "define", name |-> name, segs |-> segs]
ShowCmd(segs) == [cmd |-> "show", name |-> "", segs |-> segs]

RenderSeg(g) ==
    CASE g.k = "lit" -> "\"" \o g.v \o "\""
      [] g.k = "var" -> "(" \o g.v \o ")"
      [] g.k = "input" -> "((input))"
      [] g.k = "empty" -> ""
      [] g.k = "bad" -> g.v

RECURSIVE RenderSegs(_)
RenderSegs(segs) ==
    IF Len(segs) = 1 THEN RenderSeg(segs[1])
    ELSE RenderSeg(segs[1]) \o " : " \o RenderSegs(Tail(segs))

Render(c) ==
    IF c.cmd = "define" THEN "define " \o c.name \o " " \o RenderSegs(c.segs)
    ELSE "show " \o RenderSegs(c.segs)

\* defines whose segments resolve once first, last and an input are there
DefineCases ==
    {DefineCmd("first", <<Lit("Jane")>>),
     DefineCmd("last", <<Lit("Doe")>>),
     DefineCmd("full", <<Var("first"), Lit(" "), Var("last")>>),
     DefineCmd("first", <<Inp, Lit(""), Empty, Var("first"), Lit("!")>>)}

VocabDefine ==
    {Render(c) : c \in DefineCases} \cup {"show input \"? \"", "execute", "int", "exit"}

\* a define that succeeds, then defines and shows with a segment that does
\* not resolve: x is never defined, bad is no operand, no input is captured
FailCases ==
    {DefineCmd("y", <<Lit("1")>>),
     DefineCmd("y", <<Lit("2"), Var("x"), Bad("bad")>>),
     DefineCmd("y", <<Lit("3"), Bad("bad"), Var("x")>>),
     DefineCmd("y", <<Lit("4"), Inp, Var("x")>>),
     ShowCmd(<<Var("y"), Var("x")>>),
     ShowCmd(<<Lit("a"), Bad("bad"), Var("x")>>),
     ShowCmd(<<Inp>>)}

VocabFail == {Render(c) : c \in FailCases} \cup {"execute", "int", "exit"}

\* commands that read the input placeholder, and the captures that fill it
InputCases ==
    {DefineCmd("x", <<Inp, Lit("!")>>),
     DefineCmd("x", <<Lit("a"), Empty, Inp>>),
     ShowCmd(<<Inp>>)}

\* show ((input)) as typed, and in upper case with a color tag
ShowsInput == {Render(ShowCmd(<<Inp>>)), "Show ((INPUT)) ((color red))"}

VocabInput ==
    {Render(c) : c \in InputCases} \cup ShowsInput
        \cup {"show input \"Name? \"", "show input", "execute", "int", "exit"}

\* saving and opening: a file with a blank line, a whitespace-only line and
\* a line with spaces around it, and files the session itself saves
TextProgram == <<"define y \"1\"", "", "  show (y)  ", "   ">>

FileSystemsFiles == {[f \in {"t.zcli"} |-> TextProgram]}

FileArgsFiles == {"t.zcli"}

VocabFiles ==
    {"define y \"1\"", "save f", "save g.zcli", "open t.zcli", "open f.zcli",
     "int", "comp", "execute", "exit"}

\* lines that fail when executed at the prompt: bad syntax, an undefined
\* variable, the placeholder without input, an invalid operand, an unknown
\* command, a missing file, a file that cannot be written or read
VocabErrors ==
    {"define", "define y", "show", "show (x)", "show ((input))", "show bad", "helper",
     "open nofile.zcli", "open p.zcli", "save f", "define y \"1\"", "int", "exit"}

\* a program with lines of unknown commands between its commands, and the
\* lines to type one and to run both
UnknownProgram == <<"foo bar", "define y \"1\"", "exit", "Quit ((color red))", "show (y)">>

FileSystemsUnknown == {[f \in {"u.zcli"} |-> UnknownProgram]}

FileArgsUnknown == {"u.zcli"}

VocabUnknown ==
    {"foo", "define y \"1\"", "show (y)", "execute", "int", "open u.zcli", "exit"}

\* chains that end in a reference, written with one and with two layers of
\* parentheses, to y and to a variable named input; the define and the show
\* of a chain
Chains == {"\"a\" : (y)", "\"a\" : ((y))", "\"a\" : (input)", "\"a\" : ((input))"}

DefineOf(chain) == "define v " \o chain

ShowOf(chain) == "show " \o chain

VocabChain ==
    {DefineOf(c) : c \in Chains} \cup {ShowOf(c) : c \in Chains}
        \cup {"int", "show input", "define y \"1\"", "define input \"x\"", "exit"}

\* define x "a" with one or two spaces after the command word and after the
\* name, and the lines to run and show it
SpacedDefines ==
    {"define x \"a\"", "define x  \"a\"", "define  x \"a\"", "define  x  \"a\""}

VocabSpacing == SpacedDefines \cup {"show (x)", "int", "execute", "exit"}

\* a show with the directive written in lower case, with its keyword in
\* other cases, and with the color name in upper case
VocabKeyword ==
    {"show \"a\" ((color red))", "show \"a\" ((COLOR red))", "show \"a\" ((Color red))",
     "show \"a\" ((color RED))", "int", "execute", "exit"}

\* show lines of every branch, and each with a trailing color directive
ShowLines ==
    {"show (y)", "show \"a\" : (y)", "show ((input))", "show input", "show", "show bad"}

Colored(l) == l \o " ((color red))"

VocabColor ==
    ShowLines \cup {Colored(l) : l \in ShowLines}
        \cup {"define y \"1\"", "int", "execute", "exit"}

AllCases == DefineCases \cup FailCases \cup InputCases

AllVocab ==
    Vocab \cup VocabReplay \cup VocabDefine \cup VocabFail \cup VocabInput
        \cup VocabFiles \cup VocabErrors \cup VocabColor \cup VocabUnknown \cup VocabSpacing
        \cup VocabKeyword
        \cup VocabChain

AllFileSystems == FileSystems \cup FileSystemsReplay \cup FileSystemsFiles \cup FileSystemsRun
        \cup FileSystemsUnknown

\* every line a session of this module can meet, typed or read from a file
RECURSIVE LinesOfFiles(_)
LinesOfFiles(fss) ==
    IF fss = {} THEN {}
    ELSE LET fs == CHOOSE x \in fss : TRUE IN
         UNION {{fs[f][i] : i \in 1..Len(fs[f])} : f \in DOMAIN fs}
            \cup LinesOfFiles(fss \ {fs})

KnownLines ==
    LET raw == AllVocab \cup LinesOfFiles(AllFileSystems) IN
    raw \cup {Strip(l) : l \in raw}

\* the line-only facts of each known line, computed once
LineFacts ==
    [l \in KnownLines |->
        [pre |-> PreProcess(l), control |-> IsControlLine(l),
         exit |-> IsExitLine(l), reads |-> ReadsInput(l), opens |-> OpensFile(l),
         env |-> EnvChoices(l)]]

Facts(line) == LineFacts[line]

\* _parse_and_execute_line after the split: the try block and what it adds to
\* the warning already printed
ExecuteParts(s, p, rt, env) ==
    IF p.ignored THEN Returned(s, <<>>)
    ELSE IF p.parts = <<>> THEN Returned(s, p.warned)
    ELSE WithOutputBefore(p.warned, Dispatch(s, p.processed_line, p.parts, p.color_code, rt, env))

\* _parse_and_execute_line(line, is_runtime_execution = rt)
ParseAndExecuteLine(s0, line, rt, env) ==
    IF rt THEN ExecuteParts(s0, Facts(line).pre, rt, env)
    ELSE ExecuteParts([s0 EXCEPT !.session_history = Append(s0.session_history, line)],
                      Facts(line).pre, rt, env)

----------------------------------------------------------------------------
(* The state machine                                                       *)

\* no _run_program_lines loop is running
Idle == [lines |-> <<>>, idx |-> 0, origin |-> "none", original_mode |-> "compiler"]

\* what a step did: kind is "init", "start", "file", "exit", "eof", "buffer"
\* (line appended to the buffer), "direct" (line passed to
\* _parse_and_execute_line by the prompt loop), "replay" (line run by
\* _run_program_lines) or "return" (the loop ended and its caller went on);
\* origin is the caller of the loop; inp is what input() returned, <<>> if
\* it was not called or raised; io is how the open() of the step went, "none"
\* if it opened no file
Step(kind, line, origin, inp, io) ==
    [kind |-> kind, line |-> line, origin |-> origin, inp |-> inp, io |-> io]

\* what input() returned in a call on line under env
InputRead(line, env) == IF Facts(line).reads THEN env.inp ELSE <<>>

\* how open() went in a call on line at the prompt under env
FileOpened(line, env) == IF Facts(line).opens THEN env.io ELSE "none"

Cur == State(variables, program_lines, mode, session_history, last_input_value, files)

\* the object's fields after a call
Install(s) ==
    /\ variables' = s.variables
    /\ program_lines' = s.program_lines
    /\ mode' = s.mode
    /\ session_history' = s.session_history
    /\ last_input_value' = s.last_input_value
    /\ files' = s.files

\* ZCLILanguage.__init__, in a file system fs
InitIn(fs) ==
    /\ variables = NoVariables
    /\ program_lines = <<>>
    /\ mode = "compiler"
    /\ session_history = <<>>
    /\ last_input_value = <<>>
    /\ files = fs
    /\ pc = "init"
    /\ replay = Idle
    /\ exit_code = -1
    /\ out = <<>>
    /\ entered = <<>>
    /\ step = Step("init", "", "none", <<>>, "none")
    /\ replay_log = <<>>

\* run_repl() without a file: the welcome line, then the prompt loop
RunReplInteractive ==
    /\ pc = "init"
    /\ pc' = "repl"
    /\ out' = <<Ev("info", "Welcome", "", "")>>
    /\ step' = Step("start", "", "none", <<>>, "none")
    /\ UNCHANGED <<variables, program_lines, mode, session_history, last_input_value,
                   files, replay, exit_code, entered, replay_log>>

\* run_repl(file_to_execute) after _open_program returned r or entered the
\* replay loop
RunFileResult(file_to_execute, r) ==
    IF r.ctl = "replay"
    THEN /\ pc' = "replay"
         /\ mode' = "interpreter"
         /\ replay' = [lines |-> r.rlines, idx |-> 1, origin |-> "file",
                       original_mode |-> mode]
         /\ replay_log' = <<>>
         /\ out' = <<Ev("info", "ExecutingFile", file_to_execute, "")>> \o r.out
         /\ UNCHANGED exit_code
    ELSE /\ pc' = "exited" /\ exit_code' = 0
         /\ out' = <<Ev("info", "ExecutingFile", file_to_execute, "")>> \o r.out
                    \o <<Ev("info", "Finished", file_to_execute, "")>>
         /\ UNCHANGED <<mode, replay, replay_log>>

\* run_repl(file_to_execute): a missing file exits 1; otherwise _open_program
\* runs in mode "interpreter"
RunReplFile(file_to_execute, io) ==
    /\ pc = "init"
    /\ step' = Step("file", file_to_execute, "none", <<>>, io)
    /\ UNCHANGED <<variables, program_lines, session_history, last_input_value,
                   files, entered>>
    /\ IF file_to_execute \notin DOMAIN files
       THEN /\ pc' = "exited" /\ exit_code' = 1
            /\ out' = <<Ev("error", "FileNotFound", file_to_execute, "")>>
            /\ UNCHANGED <<mode, replay, replay_log>>
       ELSE RunFileResult(file_to_execute,
                OpenProgram([Cur EXCEPT !.mode = "interpreter"], file_to_execute, io))

\* the prompt loop reads exit
ReadExit(user_input) ==
    /\ pc = "repl"
    /\ Facts(user_input).exit
    /\ pc' = "exited" /\ exit_code' = 0
    /\ out' = <<Ev("info", "Goodbye", "", "")>>
    /\ step' = Step("exit", user_input, "none", <<>>, "none")
    /\ UNCHANGED <<variables, program_lines, mode, session_history, last_input_value,
                   files, replay, entered, replay_log>>

\* the prompt's input() raises EOFError
ReadEof ==
    /\ pc = "repl"
    /\ pc' = "exited" /\ exit_code' = 0
    /\ out' = <<Ev("info", "Goodbye", "", "")>>
    /\ step' = Step("eof", "", "none", <<>>, "none")
    /\ UNCHANGED <<variables, program_lines, mode, session_history, last_input_value,
                   files, replay, entered, replay_log>>

\* the prompt loop in compiler mode, on a line that is no control command
BufferLine(user_input, max) ==
    /\ pc = "repl"
    /\ Len(entered) < max
    /\ ~Facts(user_input).exit
    /\ mode = "compiler"
    /\ ~Facts(user_input).control
    /\ program_lines' = Append(program_lines, user_input)
    /\ out' = <<>>
    /\ entered' = Append(entered, user_input)
    /\ step' = Step("buffer", user_input, "none", <<>>, "none")
    /\ UNCHANGED <<variables, mode, session_history, last_input_value, files, pc,
                   replay, exit_code, replay_log>>

\* the prompt loop after _parse_and_execute_line returned r or entered the
\* replay loop
ExecuteLineResult(r) ==
    /\ Install(r.s)
    /\ out' = r.out
    /\ IF r.ctl = "replay"
       THEN /\ pc' = "replay"
            /\ replay' = [lines |-> r.rlines, idx |-> 1, origin |-> r.origin,
                          original_mode |-> mode]
            /\ replay_log' = <<>>
       ELSE UNCHANGED <<pc, replay, replay_log>>

\* the prompt loop on a line it passes to _parse_and_execute_line
ExecuteLine(user_input, env, max) ==
    /\ pc = "repl"
    /\ Len(entered) < max
    /\ ~Facts(user_input).exit
    /\ mode = "interpreter" \/ Facts(user_input).control
    /\ ExecuteLineResult(ParseAndExecuteLine(Cur, user_input, FALSE, env))
    /\ entered' = Append(entered, user_input)
    /\ step' = Step("direct", user_input, "none", InputRead(user_input, env),
                    FileOpened(user_input, env))
    /\ UNCHANGED exit_code

\* sys.exit(1) inside the loop: SystemExit ends the process, except under
\* run_repl(file), which catches it, restores the mode and returns
ReplayExit(r) ==
    /\ replay' = Idle
    /\ pc' = "exited"
    /\ IF replay.origin = "file"
       THEN /\ Install([r.s EXCEPT !.mode = replay.original_mode])
            /\ out' = r.out \o <<Ev("info", "Finished", "", "")>>
            /\ exit_code' = 0
       ELSE /\ Install(r.s)
            /\ out' = r.out
            /\ exit_code' = 1

\* one iteration of the loop of _run_program_lines on line, r being the result
\* of _parse_and_execute_line
ReplayLineResult(r) ==
    IF r.ctl = "exit" THEN ReplayExit(r)
    ELSE /\ Install(r.s)
         /\ out' = r.out
         /\ replay' = [replay EXCEPT !.idx = replay.idx + 1]
         /\ UNCHANGED <<pc, exit_code>>

\* the body of the loop of _run_program_lines on line
ReplayLine(line, env) ==
    /\ ReplayLineResult(ParseAndExecuteLine(Cur, line, TRUE, env))
    /\ step' = Step("replay", line, replay.origin, InputRead(line, env), "none")
    /\ replay_log' = Append(replay_log, line)
    /\ UNCHANGED entered

\* one iteration of the loop of _run_program_lines
ReplayStep ==
    /\ pc = "replay"
    /\ replay.idx <= Len(replay.lines)
    /\ \E env \in Facts(replay.lines[replay.idx]).env : ReplayLine(replay.lines[replay.idx], env)

\* the loop of _run_program_lines has ended: its caller goes on. execute
\* restores the mode; _open_program returns to the prompt loop;
\* run_repl(file) restores the mode and the process ends
ReplayReturn ==
    /\ pc = "replay"
    /\ replay.idx > Len(replay.lines)
    /\ replay' = Idle
    /\ step' = Step("return", "", replay.origin, <<>>, "none")
    /\ UNCHANGED <<variables, program_lines, session_history, last_input_value,
                   files, entered, replay_log>>
    /\ CASE replay.origin = "execute" ->
              /\ mode' = replay.original_mode
              /\ out' = <<Ev("info", "Complete", "", "")>>
              /\ pc' = "repl"
              /\ UNCHANGED exit_code
         [] replay.origin = "open" ->
              /\ out' = <<>>
              /\ pc' = "repl"
              /\ UNCHANGED <<mode, exit_code>>
         [] replay.origin = "file" ->
              /\ mode' = replay.original_mode
              /\ out' = <<Ev("info", "Finished", "", "")>>
              /\ pc' = "exited" /\ exit_code' = 0

\* every step of a process whose prompt reads at most max lines, all of vocab,
\* and whose command line may name a file of args
NextOver(vocab, args, max) ==
    \/ RunReplInteractive
    \/ \E f \in args, io \in {"ok", "fail"} : RunReplFile(f, io)
    \/ \E l \in vocab : ReadExit(l)
    \/ ReadEof
    \/ \E l \in vocab : BufferLine(l, max)
    \/ \E l \in vocab : \E env \in Facts(l).env : ExecuteLine(l, env, max)
    \/ ReplayStep
    \/ ReplayReturn

----------------------------------------------------------------------------
(* Specifications                                                          *)

InitOver(fss) == \E fs \in fss : InitIn(fs)

Init == InitOver(FileSystems)
Next == NextOver(Vocab, FileArgs, MaxEntered)
Spec == Init /\ [][Next]_vars

\* sessions that run programs
InitReplay == InitOver(FileSystemsReplay)
NextReplay == NextOver(VocabReplay, FileArgsReplay, MaxProgramEntered)
SpecReplay == InitReplay /\ [][NextReplay]_vars

\* runs of a file named on the command line
InitRun == InitOver(FileSystemsRun)
NextRun == NextOver(VocabReplay, FileArgsRun, MaxEntered)
SpecRun == InitRun /\ [][NextRun]_vars

\* sessions of defines, typed in interpreter mode or buffered and replayed
NextDefine == NextOver(VocabDefine, FileArgs, MaxProgramEntered)
SpecDefine == Init /\ [][NextDefine]_vars

\* sessions of defines and shows that fail
NextFail == NextOver(VocabFail, FileArgs, MaxEntered)
SpecFail == Init /\ [][NextFail]_vars

\* sessions that save and open files
InitFiles == InitOver(FileSystemsFiles)
NextFiles == NextOver(VocabFiles, FileArgsFiles, MaxEntered)
SpecFiles == InitFiles /\ [][NextFiles]_vars

\* sessions of lines that fail at the prompt
NextErrors == NextOver(VocabErrors, FileArgs, MaxEntered)
SpecErrors == Init /\ [][NextErrors]_vars

\* sessions that replay lines of unknown commands
InitUnknown == InitOver(FileSystemsUnknown)
NextUnknown == NextOver(VocabUnknown, FileArgsUnknown, MaxProgramEntered)
SpecUnknown == InitUnknown /\ [][NextUnknown]_vars

\* sessions that define and show the same chains
NextChain == NextOver(VocabChain, FileArgs, MaxEntered)
SpecChain == Init /\ [][NextChain]_vars

\* sessions of defines with more than one space between their tokens
NextSpacing == NextOver(VocabSpacing, FileArgs, MaxEntered)
SpecSpacing == Init /\ [][NextSpacing]_vars

\* sessions of directives written in several letter cases
NextKeyword == NextOver(VocabKeyword, FileArgs, MaxEntered)
SpecKeyword == Init /\ [][NextKeyword]_vars

\* sessions of show lines with and without a color directive
NextColor == NextOver(VocabColor, FileArgs, MaxEntered)
SpecColor == Init /\ [][NextColor]_vars

\* sessions that capture input and read it
NextInput == NextOver(VocabInput, FileArgs, MaxEntered)
SpecInput == Init /\ [][NextInput]_vars

----------------------------------------------------------------------------
(* The prompt loop: buffering, ignored lines, the session history          *)

\* the six commands the specification names as control commands
META_COMMANDS == {"execute", "help", "save", "open", "int", "comp"}

\* the command word of a line as the specification defines it: the first
\* whitespace-separated token, in lower case, of the line without its
\* trailing color directive; "" when there is none
CommandWordOf(rest) == Lower(SubSeq(rest, 1, NextWsAt(rest, 1) - 1))

\* whether a line is empty, whitespace-only, or a comment
IsBlankOrCommentOf(stripped) == stripped = "" \/ StartsWith(stripped, "$")

LineKinds ==
    [l \in KnownLines |->
        [word |-> CommandWordOf(Strip(ColorTag(l).rest)),
         blank |-> IsBlankOrCommentOf(Strip(l))]]

CommandWord(line) == LineKinds[line].word
IsBlankOrComment(line) == LineKinds[line].blank

\* a line was read at the prompt in this step, and it was not exit
ReadAtPrompt == step'.kind \in {"buffer", "direct"}

\* C1: in compiler mode a line read at the prompt whose command word is not
\* one of the six control commands is appended verbatim to program_lines and
\* not executed, and a line whose command word is one of the six is executed
\* at once and not appended
BufferedUnlessControlWord ==
    [][(ReadAtPrompt /\ mode = "compiler") =>
          IF CommandWord(step'.line) \in META_COMMANDS
          THEN step'.kind = "direct"
          ELSE /\ step'.kind = "buffer"
               /\ program_lines' = Append(program_lines, step'.line)
               /\ out' = <<>>
               /\ UNCHANGED <<variables, mode, last_input_value, files>>]_vars

\* C5 as stated: a blank or comment line read at the prompt prints nothing
\* and changes none of variables, last_input_value, program_lines,
\* session_history, mode
IgnoredLineChangesNothing ==
    [][(ReadAtPrompt /\ IsBlankOrComment(step'.line)) =>
          /\ out' = <<>>
          /\ UNCHANGED <<variables, last_input_value, program_lines,
                         session_history, mode>>]_vars

\* C5: a blank or comment line read at the prompt prints nothing and leaves
\* variables, last_input_value, mode and the files alone; in compiler mode it
\* is appended to program_lines (session_history unchanged), in interpreter
\* mode to session_history (program_lines unchanged)
IgnoredLineIsOnlyRecorded ==
    [][(ReadAtPrompt /\ IsBlankOrComment(step'.line)) =>
          /\ out' = <<>>
          /\ UNCHANGED <<variables, last_input_value, mode, files, pc, exit_code>>
          /\ IF mode = "compiler"
             THEN /\ program_lines' = Append(program_lines, step'.line)
                  /\ UNCHANGED session_history
             ELSE /\ session_history' = Append(session_history, step'.line)
                  /\ UNCHANGED program_lines]_vars

\* a comment was buffered in compiler mode and a blank line then read in
\* interpreter mode
IgnoredLinesRecorded ==
    /\ entered = <<"$ note", "int", "  ">>
    /\ program_lines = <<"$ note">>
    /\ session_history = <<"int", "  ">>
    /\ out = <<>>

\* C6: session_history is the sequence of the lines read at the prompt, in
\* either mode, and holds no replayed line
HistoryIsEveryLineEntered == pc = "repl" => session_history = entered

----------------------------------------------------------------------------
(* Replay: execute, and open in interpreter mode                           *)

\* C2: in compiler mode with a non-empty program_lines, execute read at the
\* prompt replays program_lines: the replay runs the lines in their order,
\* each once, and when it completes the mode is compiler again and the
\* variables the replayed defines set are those later commands see
ExecuteReplaysBufferOnce ==
    /\ [][(step'.kind = "direct" /\ CommandWord(step'.line) = "execute"
            /\ mode = "compiler" /\ program_lines # <<>>) =>
              /\ pc' = "replay" /\ replay'.origin = "execute"
              /\ replay'.lines = program_lines /\ replay'.idx = 1
              /\ replay_log' = <<>>]_vars
    /\ []((pc = "replay" /\ replay.origin = "execute") =>
              /\ replay.lines = program_lines
              /\ replay_log = SubSeq(program_lines, 1, replay.idx - 1))
    /\ [][(step'.kind = "return" /\ step'.origin = "execute") =>
              /\ replay_log' = program_lines'
              /\ mode' = "compiler" /\ pc' = "repl"
              /\ UNCHANGED <<variables, program_lines, last_input_value>>]_vars
    /\ []((step.kind = "return"
            /\ entered = <<"define y \"1\"", "define y (y) : \"2\"", "execute">>) =>
              variables = [n \in {"y"} |-> "12"])
    /\ []((step.kind = "direct" /\ step.line = "show (y)"
            /\ entered = <<"define y \"1\"", "execute", "int", "show (y)">>) =>
              out = <<Ev("content", "", "1", "")>>)

\* a define was buffered and replayed, the mode came back to compiler, and a
\* show executed afterwards printed the value the define stored
ReplayedDefineVisible ==
    /\ entered = <<"define y \"1\"", "execute", "int", "show (y)">>
    /\ program_lines = <<"define y \"1\"">>
    /\ replay_log = program_lines
    /\ step.kind = "direct" /\ step.line = "show (y)"
    /\ out = <<Ev("content", "", "1", "")>>

\* the diagnostics of a define or a show: bad syntax, an undefined variable,
\* the input placeholder without an input, an invalid operand
ReplayErrorTags == {"Syntax", "UndefinedVariable", "UnboundInput", "InvalidOperand"}

\* C3: a replayed line that raises one of these errors halts the replay: the
\* process ends there with a non-zero status
ReplayHaltsOnError ==
    (step.kind = "replay"
        /\ \E i \in 1..Len(out) : out[i].kind = "error" /\ out[i].tag \in ReplayErrorTags)
    => (pc = "exited" /\ exit_code > 0)

\* C4: a replayed line whose command word is a control command changes none
\* of mode, program_lines, session_history, variables, last_input_value and
\* the files, reads no file, starts no replay of its own and lets the replay
\* go on to its next line
ReplayedControlCommandIsNoOp ==
    [][(step'.kind = "replay" /\ CommandWord(step'.line) \in META_COMMANDS) =>
          /\ UNCHANGED <<mode, program_lines, session_history, variables,
                         last_input_value, files, pc, exit_code>>
          /\ replay' = [replay EXCEPT !.idx = replay.idx + 1]
          /\ \A i \in 1..Len(out') : out'[i].kind = "warning"]_vars

\* a file holding all six control commands was replayed to its end from an
\* open in interpreter mode: no file was written, the mode and the buffer
\* are those before the open
ControlCommandsReplayed ==
    /\ entered = <<"int", "open m.zcli">>
    /\ step.kind = "return" /\ step.origin = "open"
    /\ replay_log = MetaProgram
    /\ mode = "interpreter" /\ program_lines = <<>>
    /\ DOMAIN files = {"m.zcli"}
    /\ pc = "repl"

----------------------------------------------------------------------------
(* define and show: the value of a colon chain                             *)

\* the command each rendered line stands for
CaseOf == [l \in {Render(c) : c \in AllCases} |-> CHOOSE c \in AllCases : Render(c) = l]

Got(val) == [ok |-> TRUE, val |-> val, tag |-> "", arg |-> ""]
Err(tag, arg) == [ok |-> FALSE, val |-> "", tag |-> tag, arg |-> arg]

\* what the specification says a segment resolves to
SegValue(g, vs, liv) ==
    CASE g.k = "lit" -> Got(g.v)
      [] g.k = "var" -> IF g.v \in DOMAIN vs THEN Got(vs[g.v]) ELSE Err("UndefinedVariable", g.v)
      [] g.k = "input" -> IF liv # <<>> THEN Got(liv[1]) ELSE Err("UnboundInput", "((input))")
      [] g.k = "empty" -> Got("")
      [] g.k = "bad" -> Err("InvalidOperand", g.v)

\* the concatenation of the segments in their order, or the error of the
\* first segment that does not resolve
RECURSIVE ChainValue(_, _, _)
ChainValue(segs, vs, liv) ==
    IF segs = <<>> THEN Got("")
    ELSE LET h == SegValue(segs[1], vs, liv)
             r == ChainValue(Tail(segs), vs, liv)
         IN IF ~h.ok THEN h
            ELSE IF ~r.ok THEN r
            ELSE Got(h.val \o r.val)

\* the line of this step was executed: at the prompt or by a replay
Executed == step'.kind \in {"direct", "replay"}

\* C7: an executed define whose segments all resolve sets its variable to
\* the concatenation of the resolved segments, left to right with no
\* separator, empty segments dropped: a literal gives its text without the
\* quotes, a reference the variable's value, the placeholder the last input
DefineStoresConcatenation ==
    [][(Executed /\ step'.line \in DOMAIN CaseOf /\ CaseOf[step'.line].cmd = "define"
        /\ ChainValue(CaseOf[step'.line].segs, variables, last_input_value).ok) =>
          /\ DOMAIN variables' = DOMAIN variables \cup {CaseOf[step'.line].name}
          /\ variables'[CaseOf[step'.line].name] =
                ChainValue(CaseOf[step'.line].segs, variables, last_input_value).val
          /\ \A n \in DOMAIN variables \ {CaseOf[step'.line].name} :
                variables'[n] = variables[n]]_vars

\* first and last were defined and full built from them and a literal space
FullNameStored ==
    /\ step.kind = "replay"
    /\ step.line = "define full (first) : \" \" : (last)"
    /\ variables = [n \in {"first", "last", "full"} |->
                       IF n = "first" THEN "Jane" ELSE IF n = "last" THEN "Doe" ELSE "Jane Doe"]

\* C8: an executed define or show with a segment that does not resolve
\* fails at the first such segment: it prints that segment's error and no
\* content, and the variables, the earlier binding of the define's name
\* included, stay as they were
FailedChainHasNoEffect ==
    [][(Executed /\ step'.line \in DOMAIN CaseOf
        /\ ~ChainValue(CaseOf[step'.line].segs, variables, last_input_value).ok) =>
          /\ variables' = variables
          /\ out' = <<Ev("error",
                         ChainValue(CaseOf[step'.line].segs, variables, last_input_value).tag,
                         ChainValue(CaseOf[step'.line].segs, variables, last_input_value).arg,
                         "")>>]_vars

\* y was defined, and a define of y whose second segment names an undefined
\* variable then failed: y kept its value
FailedDefineKeptBinding ==
    /\ entered = <<"int", "define y \"1\"", "define y \"2\" : (x) : bad">>
    /\ step.kind = "direct"
    /\ variables = [n \in {"y"} |-> "1"]
    /\ out = <<Ev("error", "UndefinedVariable", "x", "")>>

----------------------------------------------------------------------------
(* The input placeholder                                                   *)

\* whether a command resolves the placeholder before any segment that could
\* fail for another reason
PlaceholderFirst(c) ==
    \E i \in 1..Len(c.segs) :
        /\ c.segs[i].k = "input"
        /\ \A j \in 1..(i - 1) : c.segs[j].k \in {"lit", "empty"}

ReadsPlaceholder(line) ==
    \/ line \in ShowsInput
    \/ line \in DOMAIN CaseOf /\ PlaceholderFirst(CaseOf[line])

\* C9: while no input has been captured last_input_value is None, and an
\* executed show ((input)), or define with ((input)) as a segment, is then an
\* error: it prints the error alone, stores nothing, and the slot stays None
UnboundPlaceholderIsError ==
    /\ [][(last_input_value = <<>> /\ step'.inp = <<>>) => last_input_value' = <<>>]_vars
    /\ [][(Executed /\ last_input_value = <<>> /\ ReadsPlaceholder(step'.line)) =>
              /\ Len(out') = 1
              /\ out'[1].kind = "error" /\ out'[1].tag = "UnboundInput"
              /\ variables' = variables
              /\ last_input_value' = <<>>]_vars

\* a define whose last segment is the placeholder was executed before any
\* capture: x was not defined
UnboundDefineRejected ==
    /\ entered = <<"int", "define x \"a\" :  : ((input))">>
    /\ step.kind = "direct"
    /\ last_input_value = <<>>
    /\ variables = NoVariables
    /\ out = <<Ev("error", "UnboundInput", "((input))", "")>>

\* C10: a capture by show input sets last_input_value to the line read, as
\* it was read, and prints no content; nothing else changes
\* last_input_value, reading the placeholder included; and once an input is
\* there show ((input)) prints it and a define with ((input)) stores it
PlaceholderIsLastCapture ==
    /\ [][step'.inp # <<>> =>
              /\ last_input_value' = step'.inp
              /\ \A i \in 1..Len(out') : out'[i].kind = "prompt"]_vars
    /\ [][step'.inp = <<>> => last_input_value' = last_input_value]_vars
    /\ [][(Executed /\ last_input_value # <<>> /\ step'.line \in ShowsInput) =>
              /\ Len(out') = 1
              /\ out'[1].kind = "content" /\ out'[1].text = last_input_value[1]]_vars
    /\ [][(Executed /\ last_input_value # <<>>
            /\ step'.line = Render(DefineCmd("x", <<Inp, Lit("!")>>))) =>
              variables' = [n \in {"x"} |-> last_input_value[1] \o "!"]]_vars

\* an input with spaces around it was captured and show ((input)) printed it
\* as it was read
CapturedInputShown ==
    /\ entered = <<"int", "show input \"Name? \"", "show ((input))">>
    /\ last_input_value = <<" b ">>
    /\ out = <<Ev("content", "", " b ", "")>>

----------------------------------------------------------------------------
(* Files: save and open                                                    *)

\* the file each save line of the vocabulary names, with the suffix .zcli
SavedAs == [l \in {"save f", "save g.zcli"} |-> IF l = "save f" THEN "f.zcli" ELSE "g.zcli"]

\* C11: a save read at the prompt leaves program_lines, variables,
\* last_input_value and mode alone, and when the file can be written it holds
\* exactly the lines of program_lines in compiler mode and exactly the lines
\* of session_history, the save line included, in interpreter mode
SaveWritesBufferOrHistory ==
    [][(step'.kind = "direct" /\ step'.line \in DOMAIN SavedAs) =>
          /\ UNCHANGED <<program_lines, variables, last_input_value, mode>>
          /\ step'.io = "fail" => files' = files
          /\ step'.io = "ok" =>
                files' = [f \in DOMAIN files \cup {SavedAs[step'.line]} |->
                            IF f = SavedAs[step'.line]
                            THEN IF mode = "compiler" THEN program_lines
                                 ELSE session_history'
                            ELSE files[f]]]_vars

\* the session history was saved in interpreter mode
HistorySaved ==
    /\ entered = <<"int", "define y \"1\"", "save f">>
    /\ mode = "interpreter"
    /\ "f.zcli" \in DOMAIN files
    /\ files["f.zcli"] = <<"int", "define y \"1\"", "save f">>
    /\ program_lines = <<>>

\* the file each open line of the vocabulary names
OpenedFile ==
    [l \in {"open t.zcli", "open f.zcli"} |-> IF l = "open t.zcli" THEN "t.zcli" ELSE "f.zcli"]

\* the non-empty trimmed lines of a file, in file order
IsNonEmpty(x) == x # ""
NonEmptyTrimmed(content) ==
    SelectSeq([i \in 1..Len(content) |-> Strip(content[i])], IsNonEmpty)

\* this step read an open of a file that exists and can be read
OpensReadable ==
    /\ step'.kind = "direct" /\ step'.line \in DOMAIN OpenedFile
    /\ OpenedFile[step'.line] \in DOMAIN files
    /\ step'.io = "ok"

\* C12: an open of a readable file read at the prompt, in compiler mode,
\* appends the file's non-empty trimmed lines to program_lines in file order
\* and executes none; in interpreter mode it replays those lines in file
\* order, each once, and program_lines stays as it was
OpenLoadsOrReplays ==
    /\ [][(OpensReadable /\ mode = "compiler") =>
              /\ program_lines' = program_lines \o NonEmptyTrimmed(files[OpenedFile[step'.line]])
              /\ pc' = "repl"
              /\ \A i \in 1..Len(out') : out'[i].kind = "info"
              /\ UNCHANGED <<variables, last_input_value, mode, files, replay_log>>]_vars
    /\ [][(OpensReadable /\ mode = "interpreter") =>
              /\ pc' = "replay" /\ replay'.origin = "open"
              /\ replay'.lines = NonEmptyTrimmed(files[OpenedFile[step'.line]])
              /\ replay'.idx = 1 /\ replay_log' = <<>>
              /\ UNCHANGED program_lines]_vars
    /\ []((pc = "replay" /\ replay.origin = "open") =>
              replay_log = SubSeq(replay.lines, 1, replay.idx - 1))
    /\ [][(pc = "replay" /\ replay.origin = "open") =>
              /\ UNCHANGED program_lines
              /\ step'.kind = "return" => replay_log' = replay.lines]_vars

\* the file was loaded into the buffer in compiler mode, then replayed by an
\* open in interpreter mode: the buffer holds its two lines once
FileLoadedThenReplayed ==
    /\ entered = <<"open t.zcli", "int", "open t.zcli">>
    /\ step.kind = "return" /\ step.origin = "open"
    /\ program_lines = <<"define y \"1\"", "show (y)">>
    /\ replay_log = program_lines
    /\ variables = [n \in {"y"} |-> "1"]

----------------------------------------------------------------------------
(* Errors at the prompt and in replays                                     *)

\* the diagnostics of a command that fails: those of define and show, an
\* unknown command, a file that is missing or cannot be opened
DirectErrorTags == ReplayErrorTags \cup {"UnknownCommand", "FileNotFound", "IOFailure"}

HasError(o, tags) == \E i \in 1..Len(o) : o[i].kind = "error" /\ o[i].tag \in tags

\* C13: a line executed at the prompt that fails with one of these errors
\* does not end the session: the process runs on, the prompt loop is back at
\* its read, and the mode is the one before the line
DirectErrorIsNotFatal ==
    [][(step'.kind = "direct" /\ HasError(out', DirectErrorTags)) =>
          /\ pc' = "repl" /\ exit_code' = exit_code
          /\ mode' = mode]_vars

\* a show of an undefined variable failed in interpreter mode and the next
\* line was read and executed
LineExecutedAfterError ==
    /\ entered = <<"int", "show (x)", "define y \"1\"">>
    /\ step.kind = "direct"
    /\ mode = "interpreter"
    /\ variables = [n \in {"y"} |-> "1"]
    /\ pc = "repl"

\* C14: a run of a file named on the command line whose replay ends in an
\* error (the last line replayed printed an error, whether the replay halted
\* there or returned after it) ends the process with a non-zero status
FileRunErrorExitsNonZero ==
    [][(pc' = "exited" /\ step'.origin = "file"
          /\ \/ HasError(out', DirectErrorTags \cup {"Runtime"})
             \/ step.kind = "replay" /\ HasError(out, DirectErrorTags \cup {"Runtime"}))
       => exit_code' > 0]_vars

\* C16: execute read at the prompt in interpreter mode starts no replay: it
\* prints one error and leaves variables, last_input_value, program_lines and
\* mode unchanged, and the prompt loop reads on
ExecuteInInterpreterModeIsError ==
    [][(step'.kind = "direct" /\ CommandWord(step'.line) = "execute" /\ mode = "interpreter") =>
          /\ pc' = "repl" /\ replay' = Idle /\ replay_log' = replay_log
          /\ Len(out') = 1 /\ out'[1].kind = "error"
          /\ UNCHANGED <<variables, last_input_value, program_lines, mode>>]_vars

\* execute was refused in interpreter mode with a line in the buffer and a
\* variable defined
ExecuteRefused ==
    /\ entered = <<"define y \"1\"", "int", "define y \"1\"", "execute">>
    /\ step.kind = "direct" /\ step.line = "execute"
    /\ variables = [n \in {"y"} |-> "1"]
    /\ program_lines = <<"define y \"1\"">>
    /\ mode = "interpreter"
    /\ out = <<Ev("error", "ExecuteMode", "execute", "")>>
    /\ pc = "repl"

\* the command words of the command table
COMMAND_TABLE == META_COMMANDS \cup {"define", "show"}

\* the step just taken replayed a line whose command word is not in the table
UnknownReplayed ==
    /\ step'.kind = "replay"
    /\ ~IsBlankOrComment(step'.line)
    /\ CommandWord(step'.line) \notin COMMAND_TABLE

\* C17: a replayed line whose command word is not in the command table
\* prints nothing, changes no state and does not halt the replay, which goes
\* on to its next line; and a replay that returns has run every one of its
\* lines, those after such a line too
ReplayedUnknownCommandIsSilent ==
    /\ [][UnknownReplayed =>
            /\ out' = <<>>
            /\ UNCHANGED <<variables, last_input_value, program_lines, session_history,
                           mode, files, exit_code>>
            /\ pc' = "replay"
            /\ replay' = [replay EXCEPT !.idx = replay.idx + 1]]_vars
    /\ [][step'.kind = "return" => replay_log' = replay.lines]_vars

\* a buffer of an unknown command and a define was replayed to its end: the
\* define after the unknown command took effect
DefineAfterUnknownReplayed ==
    /\ entered = <<"foo", "define y \"1\"", "execute">>
    /\ step.kind = "return" /\ step.origin = "execute"
    /\ replay_log = <<"foo", "define y \"1\"">>
    /\ variables = [n \in {"y"} |-> "1"]

\* C18: a replayed line whose command word is one of the six control
\* commands prints a warning
ReplayedControlCommandWarns ==
    [][(step'.kind = "replay" /\ CommandWord(step'.line) \in META_COMMANDS) =>
          \E i \in 1..Len(out') : out'[i].kind = "warning"]_vars

----------------------------------------------------------------------------
(* Chains in define and in show                                            *)

\* the chain a show line shows
ChainOfShow == [l \in {ShowOf(c) : c \in Chains} |-> CHOOSE c \in Chains : ShowOf(c) = l]

\* what define v of the chain of the show line of this step gives from the
\* state before the step
DefineResult ==
    ParseAndExecuteLine(Cur, DefineOf(ChainOfShow[step'.line]), FALSE, Env(<<>>, "ok"))

\* C19: a show of a chain, none of these starting with input or the
\* placeholder, prints the string that define v of the same chain would
\* store from the same state, whenever that define would store one
ShowResolvesWhatDefineResolves ==
    [][(step'.kind = "direct" /\ step'.line \in DOMAIN ChainOfShow
            /\ ~HasError(DefineResult.out, DirectErrorTags)) =>
          out' = <<Ev("content", "", DefineResult.s.variables["v"], "")>>]_vars

\* the chains that end in a two-layer reference: the name referred to and the
\* same chain with one layer
TwoLayer ==
    [c \in {"\"a\" : ((y))", "\"a\" : ((input))"} |->
        IF c = "\"a\" : ((y))" THEN [n |-> "y", one |-> "\"a\" : (y)"]
        ELSE [n |-> "input", one |-> "\"a\" : (input)"]]

\* a define or a show of such a chain: the name, the line with one layer, and
\* whether it is the define
TwoLayerLines ==
    [l \in {DefineOf(c) : c \in DOMAIN TwoLayer} \cup {ShowOf(c) : c \in DOMAIN TwoLayer} |->
        LET c == CHOOSE c \in DOMAIN TwoLayer : l \in {DefineOf(c), ShowOf(c)}
        IN  [n |-> TwoLayer[c].n,
             one |-> IF l = DefineOf(c) THEN DefineOf(TwoLayer[c].one) ELSE ShowOf(TwoLayer[c].one),
             define |-> l = DefineOf(c)]]

\* a step at the prompt on a line with a two-layer reference to a name of
\* names does what the line with one layer does from the same state: with
\* the name defined the define stores, and the show prints, the literal
\* followed by the variable's value; with the name undefined both fail with
\* the undefined-variable error and store nothing
TwoLayerAsOneLayer(names) ==
    (step'.kind = "direct" /\ step'.line \in DOMAIN TwoLayerLines
        /\ TwoLayerLines[step'.line].n \in names) =>
      LET l == TwoLayerLines[step'.line]
          r == ParseAndExecuteLine(Cur, l.one, FALSE, Env(<<>>, "ok"))
      IN  /\ variables' = r.s.variables
          /\ last_input_value' = r.s.last_input_value
          /\ out' = r.out
          /\ IF l.n \notin DOMAIN variables
             THEN /\ out' = <<Ev("error", "UndefinedVariable", l.n, "")>>
                  /\ variables' = variables
             ELSE IF l.define
             THEN variables' = [x \in DOMAIN variables \cup {"v"} |->
                                  IF x = "v" THEN "a" \o variables[l.n] ELSE variables[x]]
             ELSE /\ out' = <<Ev("content", "", "a" \o variables[l.n], "")>>
                  /\ variables' = variables

\* C20 as stated: for every variable name, input among them, ((n)) resolves
\* as (n) does in define chains and in show chains
TwoLayersIsReference == [][TwoLayerAsOneLayer({"y", "input"})]_vars

\* C20: for a variable name other than input, ((n)) resolves as (n) does in
\* define chains and in show chains: to the variable's value when it is
\* defined and to the undefined-variable error otherwise
TwoLayersIsReferenceButInput == [][TwoLayerAsOneLayer({"y"})]_vars

\* a define of a chain with ((y)) stored the literal followed by the value of y
TwoLayerReferenceStored ==
    /\ entered = <<"int", "define y \"1\"", "define v \"a\" : ((y))">>
    /\ step.kind = "direct"
    /\ variables = [x \in {"y", "v"} |-> IF x = "y" THEN "1" ELSE "a1"]

----------------------------------------------------------------------------
(* The color directive                                                     *)

\* the show line a colored line is made of
PlainOf == [c \in {Colored(l) : l \in ShowLines} |-> CHOOSE l \in ShowLines : Colored(l) = c]

\* the output with the color of every event removed
WithoutColor(o) == [i \in 1..Len(o) |-> [o[i] EXCEPT !.color = ""]]

\* the step just taken processed a show line that carries the directive
ColoredStep == step'.kind \in {"direct", "buffer", "replay"} /\ step'.line \in DOMAIN PlainOf

\* what _parse_and_execute_line gives on the same line without the directive,
\* from the state before the step and with the same answer of the environment
PlainResult ==
    ParseAndExecuteLine(Cur, PlainOf[step'.line], step'.kind = "replay", Env(step'.inp, "ok"))

\* the output of the step but for the messages that end a halted replay
OwnOutput(o) == SelectSeq(o, LAMBDA e : ~(e.kind = "info" /\ e.tag \in {"Halted", "Finished"}))

\* C15 as stated: a show line with ((color red)) leaves all of variables,
\* last_input_value, program_lines, session_history and mode as the line
\* without it does
ColorDirectiveChangesNoState ==
    [][ColoredStep =>
          IF step'.kind = "buffer"
          THEN /\ program_lines' = Append(program_lines, PlainOf[step'.line])
               /\ UNCHANGED <<variables, last_input_value, session_history, mode>>
          ELSE /\ variables' = PlainResult.s.variables
               /\ last_input_value' = PlainResult.s.last_input_value
               /\ program_lines' = PlainResult.s.program_lines
               /\ session_history' = PlainResult.s.session_history
               /\ mode' = PlainResult.s.mode]_vars

\* C15: a show line with ((color red)) leaves variables, last_input_value and
\* mode as the line without it does, and program_lines and session_history
\* too but for the line recorded there, which is the line as entered, with
\* its directive; it prints what the line without it prints, the content in
\* red; and a show line without a directive prints in no color, whatever
\* was printed before it
ColorDirectiveOnlyColors ==
    /\ [][ColoredStep =>
            IF step'.kind = "buffer"
            THEN /\ ~IsControlLine(PlainOf[step'.line])
                 /\ program_lines' = Append(program_lines, step'.line)
                 /\ out' = <<>>
                 /\ UNCHANGED <<variables, last_input_value, session_history, mode>>
            ELSE /\ variables' = PlainResult.s.variables
                 /\ last_input_value' = PlainResult.s.last_input_value
                 /\ program_lines' = PlainResult.s.program_lines
                 /\ mode' = PlainResult.s.mode
                 /\ IF step'.kind = "replay"
                    THEN session_history' = PlainResult.s.session_history
                    ELSE /\ session_history' = Append(session_history, step'.line)
                         /\ PlainResult.s.session_history
                              = Append(session_history, PlainOf[step'.line])
                 /\ WithoutColor(OwnOutput(out')) = OwnOutput(PlainResult.out)
                 /\ \A i \in 1..Len(out') :
                       out'[i].color = IF out'[i].kind = "content" THEN ANSI_COLORS["red"]
                                      ELSE ""]_vars
    /\ [][(step'.kind \in {"direct", "replay"} /\ step'.line \in ShowLines) =>
            \A i \in 1..Len(out') : out'[i].color = ""]_vars

\* in interpreter mode a show with the directive printed the value of y in
\* red and was recorded in the history as entered
ColoredShowPrinted ==
    /\ entered = <<"int", "define y \"1\"", "show (y) ((color red))">>
    /\ step.kind = "direct"
    /\ out = <<Ev("content", "", "1", ANSI_COLORS["red"])>>
    /\ session_history[Len(session_history)] = "show (y) ((color red))"

----------------------------------------------------------------------------
(* Tokens, the variable store, the buffer, replays                         *)

\* C21: an executed define x "a", whatever the number of spaces after the
\* command word and after the name, stores a in x
DefineValueIsThirdToken ==
    [][(step'.kind \in {"direct", "replay"} /\ step'.line \in SpacedDefines) =>
          /\ "x" \in DOMAIN variables'
          /\ variables'["x"] = "a"]_vars

\* the second whitespace-separated token of a line without its directive, ""
\* when there is none: the name a define line defines
SecondWordFrom(rest, j) == SubSeq(rest, j, NextWsAt(rest, j) - 1)

SecondWordOf(rest) == SecondWordFrom(rest, NextNonWsAt(rest, NextWsAt(rest, 1)))

DefinedName == [l \in KnownLines |-> SecondWordOf(Strip(ColorTag(l).rest))]

\* C22: no step removes a name from variables, and a step that changes
\* variables is an executed define, typed or replayed, that printed no error
\* and changed or created the binding of its own name only
OnlyDefineChangesVariables ==
    [][/\ \A n \in DOMAIN variables : n \in DOMAIN variables'
       /\ variables' # variables =>
             /\ step'.kind \in {"direct", "replay"}
             /\ CommandWord(step'.line) = "define"
             /\ ~HasError(out', DirectErrorTags \cup {"Runtime"})
             /\ DOMAIN variables' = DOMAIN variables \cup {DefinedName[step'.line]}
             /\ \A n \in DOMAIN variables \ {DefinedName[step'.line]} :
                   variables'[n] = variables[n]]_vars

\* y was defined at the prompt, then a replayed file created z from it and
\* left y alone
BindingCreatedBesideAnother ==
    /\ entered = <<"int", "define y \"1\"", "open m.zcli">>
    /\ step.kind = "return"
    /\ variables = [n \in {"y", "z"} |-> "1"]

\* a is b or the beginning of b
IsPrefix(a, b) == Len(a) <= Len(b) /\ SubSeq(b, 1, Len(a)) = a

\* C23: across every step program_lines keeps its contents as a prefix; it
\* grows only when the prompt loop buffers a line in compiler mode (by that
\* line) or on an open read at the prompt in compiler mode; an execute and
\* every step of a replay leave it as it is, and an execute in compiler mode
\* replays exactly the lines it holds, the second time as the first
BufferIsAppendOnly ==
    [][/\ IsPrefix(program_lines, program_lines')
       /\ program_lines' # program_lines =>
             \/ /\ step'.kind = "buffer" /\ mode = "compiler"
                /\ program_lines' = Append(program_lines, step'.line)
             \/ /\ step'.kind = "direct" /\ mode = "compiler"
                /\ CommandWord(step'.line) = "open"
       /\ (step'.kind = "direct" /\ CommandWord(step'.line) = "execute") =>
             /\ program_lines' = program_lines
             /\ (mode = "compiler" /\ program_lines # <<>>) =>
                   pc' = "replay" /\ replay'.lines = program_lines
       /\ (pc = "replay" \/ pc' = "replay") => program_lines' = program_lines]_vars

\* a second execute has replayed the line the first one replayed, and the
\* buffer still holds it
BufferReplayedTwice ==
    /\ entered = <<"define y \"1\"", "execute", "execute">>
    /\ step.kind = "return" /\ step.origin = "execute"
    /\ replay_log = <<"define y \"1\"">>
    /\ program_lines = <<"define y \"1\"">>

\* the lines whose directive has its keyword in another case, and the same
\* line with the keyword in lower case
LowerKeywordOf ==
    [l \in {"show \"a\" ((COLOR red))", "show \"a\" ((Color red))"} |-> "show \"a\" ((color red))"]

\* C24: an executed line ending in ((COLOR red)) or ((Color red)) prints and
\* stores what the same line ending in ((color red)) does from the same state
KeywordCaseIsIgnored ==
    [][(step'.kind \in {"direct", "replay"} /\ step'.line \in DOMAIN LowerKeywordOf) =>
          LET r == ParseAndExecuteLine(Cur, LowerKeywordOf[step'.line],
                                       step'.kind = "replay", Env(<<>>, "ok"))
          IN  /\ out' = r.out
              /\ variables' = r.s.variables
              /\ last_input_value' = r.s.last_input_value]_vars

\* C25: while a replay runs the mode is interpreter, program_lines and
\* session_history do not change, and the replay that goes on is the same
\* one at its next line; no replayed line, whatever the environment answers,
\* starts a replay of its own
ReplaysNeverNest ==
    /\ [](pc = "replay" =>
            /\ mode = "interpreter"
            /\ replay.origin \in {"execute", "open", "file"}
            /\ replay.idx = Len(replay_log) + 1)
    /\ [][pc = "replay" =>
            /\ UNCHANGED <<program_lines, session_history>>
            /\ pc' = "replay" =>
                  /\ replay'.lines = replay.lines /\ replay'.origin = replay.origin
                  /\ replay'.idx = replay.idx + 1]_vars
    /\ [][step'.kind = "replay" =>
            \A env \in Facts(step'.line).env :
                ParseAndExecuteLine(Cur, step'.line, TRUE, env).ctl # "replay"]_vars

\* a replay started by execute has run the execute, the open, the int and
\* the comp of its buffer and goes on in interpreter mode
ControlCommandsPassedInReplay ==
    /\ entered = <<"open m.zcli", "execute">>
    /\ pc = "replay" /\ replay.origin = "execute"
    /\ replay_log = SubSeq(MetaProgram, 1, 5)
    /\ mode = "interpreter"
    /\ program_lines = MetaProgram

====
